---- MODULE Spec2Model ----
(***************************************************************************)
(* Model of the booklook backend: review rows and the denormalised book    *)
(* aggregate (average_rating, review_count), the Redis cache in front of   *)
(* the book reads, and the reading-progress rows.                          *)
(*                                                                         *)
(* The database is modelled at the granularity of its commits: every       *)
(* db.commit() of a request handler is one step, so the states of the      *)
(* model are exactly the committed database states other requests can see. *)
(* average_rating is held in hundredths (the column is Numeric(3, 2)).     *)
(***************************************************************************)
EXTENDS Integers, Sequences, FiniteSets, TLC

\* ---- bounds of the model ----
MaxUsers == 2
MaxBooks == 2
MaxReviews == 2
MaxCsvRows == 2
NumProcs == 2
MaxPage == 3
MaxListItems == 15
MaxListPage == 2
MaxTokens == 2
MaxIsbn == 2
MaxPages == 3
MaxPageNumber == 2
MaxBulk == 2

\* ---- program constants ----
MinRating == 1
MaxRating == 5

UserIds == 1..MaxUsers
BookIds == 1..MaxBooks
Procs == 1..NumProcs
\* Python's None for an Optional[int]
Null == 0 - 1
\* the ratings callers send: the bounds of the valid range and their neighbours
RatingInputs == {MinRating - 1, MinRating, MaxRating, MaxRating + 1}

VARIABLES
    users,      \* ids of the rows of table users
    books,      \* table books: id -> row
    reviews,    \* table reviews: set of rows
    progress,   \* table reading_progress: set of rows keyed by (user_id, book_id)
    cache,      \* Redis: key -> cached JSON value
    reqs,       \* ReviewController requests in flight: position and locals
    response,   \* what the most recently completed call returned
    favorites,  \* table user_favorites: set of <<user_id, book_id>>
    accounts,   \* table users: id -> the mapped column is_active
    sessions,   \* Redis: session token -> user id
    issued,     \* the session tokens generated so far
    pages       \* table book_pages: set of rows

vars == <<users, books, reviews, progress, cache, reqs, response,
          favorites, accounts, sessions, issued, pages>>

\* what the review, cache and reading-progress handlers never write
ext == <<favorites, accounts, sessions, issued, pages>>

\* ------------------------------------------------------------------
\* Cache keys (helpers/cache_helper.py).  A key is the md5 hex digest of
\* "<prefix>:<json of the parameters>"; strings are sequences of characters.
\* The digests below are the real digests of the keys the controllers build.
\* ------------------------------------------------------------------
Md5BookDetail ==
    (1 :> <<"9","c","a","4","6","8","1","0","c","a","7","a","4","3","c","a","b","2","8","b","e","c","c","e","6","4","6","5","a","b","1","2">>) @@
    (2 :> <<"6","2","4","5","d","9","9","d","4","6","6","7","c","5","f","4","4","8","6","4","2","2","4","5","d","2","2","2","2","f","9","9">>) @@
    (3 :> <<"a","5","6","6","b","d","4","d","3","2","0","c","f","e","7","c","6","b","c","6","6","9","d","b","d","b","b","9","9","2","6","4">>) @@
    (4 :> <<"e","f","9","9","3","d","c","d","2","4","4","d","1","c","6","5","f","7","6","d","6","3","5","3","6","9","d","9","9","c","0","3">>)

Md5RatingDist ==
    (1 :> <<"0","a","f","d","d","8","a","3","2","f","c","b","0","e","2","d","d","a","b","a","d","d","0","f","2","b","f","2","4","0","b","c">>) @@
    (2 :> <<"2","1","d","a","d","2","3","d","6","4","e","6","1","e","f","a","d","7","0","9","3","6","5","9","1","8","b","7","f","0","4","d">>) @@
    (3 :> <<"5","9","4","5","c","5","4","7","e","4","0","5","c","3","4","c","f","4","f","d","e","d","8","9","3","3","6","0","6","6","4","e">>) @@
    (4 :> <<"7","3","e","c","2","8","0","4","c","3","d","b","3","e","f","2","7","d","6","5","0","a","2","e","2","a","0","b","f","7","f","c">>)

Md5BooksPaginated ==
    <<"c","1","2","9","3","5","f","0","d","4","0","d","f","d","0","f","3","7","2","5","2","f","6","9","3","5","f","6","2","d","1","0">>

\* generate_cache_key(prefix, **kwargs)
generate_cache_key(prefix, book_id) ==
    IF prefix = "book_detail" THEN Md5BookDetail[book_id]
    ELSE IF prefix = "rating_dist" THEN Md5RatingDist[book_id]
    ELSE Md5BooksPaginated

Digit(n) == <<"0","1","2","3","4","5","6","7","8","9">>[n + 1]
Star == "*"

\* Redis KEYS glob matching restricted to literals and '*'
RECURSIVE GlobMatch(_, _)
GlobMatch(pat, s) ==
    IF pat = <<>> THEN s = <<>>
    ELSE IF Head(pat) = Star
         THEN \E i \in 1..(Len(s) + 1) : GlobMatch(Tail(pat), SubSeq(s, i, Len(s)))
         ELSE /\ s # <<>>
              /\ Head(s) = Head(pat)
              /\ GlobMatch(Tail(pat), Tail(s))

\* the patterns of invalidate_book_cache(book_id), in the order of the list
BookCachePatterns(book_id) ==
    << <<Star, "b","o","o","k", Star, Digit(book_id), Star>>,
       <<Star, "b","o","o","k","s","_","p","a","g","i","n","a","t","e","d", Star>>,
       <<Star, "p","o","p","u","l","a","r","_","b","o","o","k","s", Star>>,
       <<Star, "s","e","a","r","c","h","_","b","o","o","k","s", Star>> >>

\* CacheHelper.delete(cache_key)
CacheDelete(c, key) == [k \in (DOMAIN c) \ {key} |-> c[k]]

\* CacheHelper.delete_pattern(pattern): delete every key that KEYS(pattern) returns
delete_pattern(c, pattern) ==
    [k \in {x \in DOMAIN c : ~GlobMatch(pattern, x)} |-> c[k]]

RECURSIVE DeletePatterns(_, _)
DeletePatterns(c, patterns) ==
    IF patterns = <<>> THEN c
    ELSE DeletePatterns(delete_pattern(c, Head(patterns)), Tail(patterns))

\* CacheHelper.invalidate_book_cache(book_id)
invalidate_book_cache(c, book_id) == DeletePatterns(c, BookCachePatterns(book_id))

\* ReviewController._invalidate_review_caches(book_id)
invalidate_review_caches(c, book_id) ==
    invalidate_book_cache(CacheDelete(c, generate_cache_key("rating_dist", book_id)), book_id)

\* ------------------------------------------------------------------
\* Reviews and the book aggregate
\* ------------------------------------------------------------------
ReviewsOfBook(rs, book_id) == {r \in rs : r.book_id = book_id}

RECURSIVE SumRatings(_)
SumRatings(rs) ==
    IF rs = {} THEN 0
    ELSE LET r == CHOOSE x \in rs : TRUE IN r.rating + SumRatings(rs \ {r})

\* ValidationHelper.validate_rating / validate_review_data (rating part)
validate_rating(rating) == ~(rating < MinRating \/ rating > MaxRating)

\* the lookup with its test inverted ("is None" for "is not None")
user_has_reviewed_book_inverted(user_id, book_id) ==
    ~(\E r \in reviews : r.user_id = user_id /\ r.book_id = book_id)

\* ReviewRepository.find_user_review_for_book / user_has_reviewed_book
user_has_reviewed_book(user_id, book_id) ==
    \E r \in reviews : r.user_id = user_id /\ r.book_id = book_id

\* ReviewRepository.calculate_book_rating_stats: SELECT avg(rating), count(id).
\* The average is the exact quotient sum/count, kept as the pair <<sum, count>>;
\* "if result.avg_rating else 0.0" maps a NULL or zero average to 0.0.
calculate_book_rating_stats(book_id) ==
    LET rs == ReviewsOfBook(reviews, book_id)
        n == Cardinality(rs)
        total == SumRatings(rs)
    IN  IF n = 0 \/ total = 0
        THEN [avg_num |-> 0, avg_den |-> 1, review_count |-> n]
        ELSE [avg_num |-> total, avg_den |-> n, review_count |-> n]

\* a value num/den written to the Numeric(3, 2) column average_rating:
\* rounded to two decimals, half away from zero; result in hundredths
Numeric32(num, den) == (200 * num + den) \div (2 * den)

\* the update without the assignment of review_count
update_rating_stats_without_count(bs, book_id, num, den, review_count) ==
    IF book_id \notin DOMAIN bs THEN bs
    ELSE [bs EXCEPT ![book_id].average_rating = Numeric32(num, den)]

\* BookRepository.update_rating_stats(book_id, avg_rating, review_count)
update_rating_stats(bs, book_id, num, den, review_count) ==
    IF book_id \notin DOMAIN bs THEN bs
    ELSE [bs EXCEPT ![book_id].average_rating = Numeric32(num, den),
                    ![book_id].review_count = review_count]

IdleReq == [pc |-> "idle", op |-> "none", user_id |-> 0, book_id |-> 0, rating |-> 0,
            review_id |-> 0, avg_num |-> 0, avg_den |-> 1, review_count |-> 0]

\* the result of a completed call; data carries the returned rows
Resp(op, result) == [op |-> op, result |-> result, data |-> {}]

\* the last step completed no call
NoResponse == Resp("none", "none")

Idle(p) == reqs[p].pc = "idle"

\* The reviews.id sequence.  An id is only a name for a row, so the model
\* hands out the smallest ids that no row carries and no request in flight
\* refers to; MaxReviews bounds the rows (stored or being inserted) at a time.
ReviewIds == 1..MaxReviews
UsedIds == {r.id : r \in reviews} \cup {reqs[p].review_id : p \in Procs}
PendingInserts == Cardinality({p \in Procs : reqs[p].pc = "insert"})
IdBudget(n) == Cardinality(ReviewIds \ UsedIds) >= n + PendingInserts

RECURSIVE FreshIds(_, _)
FreshIds(n, used) ==
    IF n = 0 THEN <<>>
    ELSE LET i == CHOOSE x \in ReviewIds \ used : \A y \in ReviewIds \ used : x <= y
         IN  <<i>> \o FreshIds(n - 1, used \cup {i})

\* ---- ReviewController.create_review ----
\* validation and duplicate check; a passing request goes on to the insert
CreateReviewBegin(p, user_id, book_id, rating) ==
    /\ Idle(p)
    /\ user_id \in users
    /\ (validate_rating(rating) /\ ~user_has_reviewed_book(user_id, book_id)) => IdBudget(1)
    /\ IF ~validate_rating(rating)
       THEN /\ response' = Resp("create_review", "invalid")
            /\ UNCHANGED reqs
       ELSE IF user_has_reviewed_book(user_id, book_id)
       THEN /\ response' = Resp("create_review", "duplicate")
            /\ UNCHANGED reqs
       ELSE /\ reqs' = [reqs EXCEPT ![p] = [IdleReq EXCEPT !.pc = "insert",
                            !.op = "create_review", !.user_id = user_id,
                            !.book_id = book_id, !.rating = rating]]
            /\ response' = NoResponse
    /\ UNCHANGED <<ext, users, books, reviews, progress, cache>>

\* ReviewRepository.create_review: INSERT and commit; the foreign keys of the
\* row must exist, otherwise the commit raises
CreateReviewInsert(p) ==
    /\ reqs[p].pc = "insert"
    /\ LET q == reqs[p] IN
       IF q.user_id \in users /\ q.book_id \in DOMAIN books
       THEN /\ reviews' = reviews \cup {[id |-> FreshIds(1, UsedIds)[1], user_id |-> q.user_id,
                                         book_id |-> q.book_id, rating |-> q.rating]}
            /\ reqs' = [reqs EXCEPT ![p].pc = "stats_read",
                                    ![p].review_id = FreshIds(1, UsedIds)[1],
                                    ![p].user_id = 0, ![p].rating = 0]
            /\ response' = NoResponse
       ELSE /\ response' = Resp("create_review", "exception")
            /\ reqs' = [reqs EXCEPT ![p] = IdleReq]
            /\ UNCHANGED reviews
    /\ UNCHANGED <<ext, users, books, progress, cache>>

\* the lookup without the owner filter
owned_review_any_user(review_id, user_id) ==
    {r \in reviews : r.id = review_id}

\* the row update_review and delete_user_review act on: the review with the
\* id that belongs to the calling user
owned_review(review_id, user_id) ==
    {r \in reviews : r.id = review_id /\ r.user_id = user_id}

\* ---- ReviewController.update_review ----
\* validation, then ReviewRepository.update_review: the owner's row is
\* changed and committed
UpdateReviewBegin(p, review_id, user_id, rating) ==
    /\ Idle(p)
    /\ user_id \in users
    /\ LET checked == IF rating = Null \/ rating = 0 THEN 5 ELSE rating
           found == owned_review(review_id, user_id)
       IN  IF ~validate_rating(checked)
           THEN /\ response' = Resp("update_review", "invalid")
                /\ UNCHANGED <<reqs, reviews>>
           ELSE IF found = {}
           THEN /\ response' = Resp("update_review", "not_found")
                /\ UNCHANGED <<reqs, reviews>>
           ELSE LET r == CHOOSE x \in found : TRUE IN
                /\ reviews' = IF rating # Null
                              THEN (reviews \ {r}) \cup {[r EXCEPT !.rating = rating]}
                              ELSE reviews
                /\ reqs' = [reqs EXCEPT ![p] = [IdleReq EXCEPT !.pc = "stats_read",
                                !.op = "update_review", !.book_id = r.book_id,
                                !.review_id = review_id]]
                /\ response' = NoResponse
    /\ UNCHANGED <<ext, users, books, progress, cache>>

\* ---- ReviewController.delete_review ----
\* ownership check, then ReviewRepository.delete_user_review: DELETE and commit
DeleteReviewBegin(p, review_id, user_id) ==
    /\ Idle(p)
    /\ user_id \in users
    /\ LET found == owned_review(review_id, user_id) IN
       IF found = {}
       THEN /\ response' = Resp("delete_review", "not_found")
            /\ UNCHANGED <<reqs, reviews>>
       ELSE LET r == CHOOSE x \in found : TRUE IN
            /\ reviews' = reviews \ {r}
            /\ reqs' = [reqs EXCEPT ![p] = [IdleReq EXCEPT !.pc = "stats_read",
                            !.op = "delete_review", !.book_id = r.book_id]]
            /\ response' = NoResponse
    /\ UNCHANGED <<ext, users, books, progress, cache>>

\* ---- ReviewController._update_book_rating_stats ----
\* first half: the aggregate query
StatsRead(p) ==
    /\ reqs[p].pc = "stats_read"
    /\ LET st == calculate_book_rating_stats(reqs[p].book_id) IN
       reqs' = [reqs EXCEPT ![p].pc = "stats_write", ![p].avg_num = st.avg_num,
                            ![p].avg_den = st.avg_den, ![p].review_count = st.review_count]
    /\ response' = NoResponse
    /\ UNCHANGED <<ext, users, books, reviews, progress, cache>>

\* second half: BookRepository.update_rating_stats and its commit
StatsWrite(p) ==
    /\ reqs[p].pc = "stats_write"
    /\ books' = update_rating_stats(books, reqs[p].book_id, reqs[p].avg_num,
                                    reqs[p].avg_den, reqs[p].review_count)
    /\ reqs' = [reqs EXCEPT ![p].pc = "finish", ![p].avg_num = 0, ![p].avg_den = 1,
                            ![p].review_count = 0]
    /\ response' = NoResponse
    /\ UNCHANGED <<ext, users, reviews, progress, cache>>

\* _invalidate_review_caches, then the result of the call: create and update
\* re-read the review (None when it is gone), delete returns True
Finish(p) ==
    /\ reqs[p].pc = "finish"
    /\ cache' = invalidate_review_caches(cache, reqs[p].book_id)
    /\ LET q == reqs[p]
           result == IF q.op = "delete_review" \/ (\E r \in reviews : r.id = q.review_id)
                     THEN "ok" ELSE "none"
       IN  response' = Resp(q.op, result)
    /\ reqs' = [reqs EXCEPT ![p] = IdleReq]
    /\ UNCHANGED <<ext, users, books, reviews, progress>>

\* ---- AdminReviewController ----
\* _update_book_rating_stats(book_id): the book is loaded, then
\* self.review_repo.get_reviews_by_book is called; ReviewRepository defines no
\* such method, so the call raises AttributeError before anything is written
AdminUpdateBookRatingStatsRaises(book_id) == book_id \in DOMAIN books

\* delete_review(review_id): DELETE and commit, then _update_book_rating_stats
AdminDeleteReview(review_id) ==
    /\ LET found == {r \in reviews : r.id = review_id} IN
       IF found = {}
       THEN /\ response' = Resp("admin_delete_review", "not_found")
            /\ UNCHANGED reviews
       ELSE LET r == CHOOSE x \in found : TRUE IN
            /\ reviews' = reviews \ {r}
            /\ response' = Resp("admin_delete_review",
                                IF AdminUpdateBookRatingStatsRaises(r.book_id)
                                THEN "exception" ELSE "ok")
    /\ UNCHANGED <<ext, users, books, progress, cache, reqs>>

\* bulk_delete_reviews(review_ids): delete every id found, one commit, then
\* _update_book_rating_stats for each affected book
AdminBulkDeleteReviews(review_ids) ==
    /\ LET found == {r \in reviews : r.id \in review_ids}
           book_ids == {r.book_id : r \in found}
       IN  /\ reviews' = reviews \ found
           /\ response' = Resp("admin_bulk_delete_reviews",
                               IF \E b \in book_ids : AdminUpdateBookRatingStatsRaises(b)
                               THEN "exception" ELSE "ok")
    /\ UNCHANGED <<ext, users, books, progress, cache, reqs>>

\* ---- AdminUserController.delete_user ----
\* the scan that deletes nothing
invalidate_user_sessions_skipped(user_id) == sessions

\* AuthHelper.invalidate_user_sessions: every session of the user is deleted
invalidate_user_sessions(user_id) ==
    [t \in {k \in DOMAIN sessions : sessions[k] # user_id} |-> sessions[t]]

\* invalidate_user_sessions, then db.delete(user): the cascade removes the
\* user's reviews, reading-progress rows and favorites; nothing else is written
AdminDeleteUser(user_id) ==
    /\ IF user_id \notin users
       THEN /\ response' = Resp("admin_delete_user", "not_found")
            /\ UNCHANGED <<users, accounts, sessions, reviews, progress, favorites>>
       ELSE /\ sessions' = invalidate_user_sessions(user_id)
            /\ users' = users \ {user_id}
            /\ accounts' = [u \in DOMAIN accounts \ {user_id} |-> accounts[u]]
            /\ reviews' = {r \in reviews : r.user_id # user_id}
            /\ progress' = {g \in progress : g.user_id # user_id}
            /\ favorites' = {f \in favorites : f[1] # user_id}
            /\ response' = Resp("admin_delete_user", "ok")
    /\ UNCHANGED <<books, cache, reqs, issued, pages>>

\* ---- routes/admin_csv_routes.py: import_reviews_csv ----
\* a row of the file: the user and book its email and ISBN resolve to, and
\* int(row['Rating'])
CsvRatings == {MinRating - 1, MaxRating}
CsvRows == [user_id : UserIds, book_id : BookIds, rating : CsvRatings]
CsvFiles == UNION {[1..n -> CsvRows] : n \in 1..MaxCsvRows}

\* the rows the loop adds to the session: user and book found, and no review
\* of the pair returned by the query (autoflush is off, so the query sees the
\* committed rows only, not the reviews added for earlier rows of the file)
CsvAccepted(rows) ==
    SelectSeq(rows, LAMBDA row : /\ row.user_id \in users
                                 /\ row.book_id \in DOMAIN books
                                 /\ ~(\E r \in reviews :
                                        /\ r.user_id = row.user_id
                                        /\ r.book_id = row.book_id))

import_reviews_csv(rows) ==
    /\ LET added == CsvAccepted(rows) IN
       /\ IdBudget(Len(added))
       /\ LET ids == FreshIds(Len(added), UsedIds) IN
          reviews' = reviews \cup
             {[id |-> ids[i], user_id |-> added[i].user_id,
               book_id |-> added[i].book_id, rating |-> added[i].rating] :
              i \in 1..Len(added)}
    /\ response' = Resp("import_reviews_csv", "ok")
    /\ UNCHANGED <<ext, users, books, progress, cache, reqs>>

\* ---- BookController reads through the cache ----
BookDict(book_id) ==
    [id |-> book_id, average_rating |-> books[book_id].average_rating,
     review_count |-> books[book_id].review_count]

\* get_book_details(book_id) via BaseController.get_cached_or_fetch
get_book_details(book_id) ==
    /\ LET cache_key == generate_cache_key("book_detail", book_id) IN
       IF cache_key \in DOMAIN cache
       THEN /\ response' = [Resp("get_book_details", "ok")
                               EXCEPT !.data = cache[cache_key]]
            /\ UNCHANGED cache
       ELSE IF book_id \notin DOMAIN books
       THEN /\ response' = Resp("get_book_details", "none")
            /\ UNCHANGED cache
       ELSE /\ cache' = (cache_key :> {BookDict(book_id)}) @@ cache
            /\ response' = [Resp("get_book_details", "ok")
                               EXCEPT !.data = {BookDict(book_id)}]
    /\ UNCHANGED <<ext, users, books, reviews, progress, reqs>>

\* get_books_paginated() with its default arguments
get_books_paginated ==
    /\ LET cache_key == generate_cache_key("books_paginated", 0)
           fetched == {BookDict(b) : b \in DOMAIN books}
       IN  IF cache_key \in DOMAIN cache
           THEN /\ response' = [Resp("get_books_paginated", "ok")
                                   EXCEPT !.data = cache[cache_key]]
                /\ UNCHANGED cache
           ELSE /\ cache' = (cache_key :> fetched) @@ cache
                /\ response' = [Resp("get_books_paginated", "ok")
                                   EXCEPT !.data = fetched]
    /\ UNCHANGED <<ext, users, books, reviews, progress, reqs>>

\* Redis drops an entry when its TTL (setex) runs out
CacheExpire(cache_key) ==
    /\ cache_key \in DOMAIN cache
    /\ cache' = CacheDelete(cache, cache_key)
    /\ response' = NoResponse
    /\ UNCHANGED <<ext, users, books, reviews, progress, reqs>>

\* ------------------------------------------------------------------
\* Reading progress
\* ------------------------------------------------------------------
\* the default total of mark_book_as_finished
DefaultTotalPages == 100

\* the page numbers of the documented example (current_page=50, total_pages=100)
ExamplePages == {50, 100}
CurrentPageInputs == ((0 - 1)..MaxPage) \cup ExamplePages
TotalPagesInputs == {Null} \cup (0..MaxPage) \cup ExamplePages

\* Python truthiness of an Optional[int]
Truthy(x) == x # Null /\ x # 0

\* x or y
PyOr(x, y) == IF Truthy(x) THEN x ELSE y

RECURSIVE Gcd(_, _)
Gcd(a, b) == IF b = 0 THEN a ELSE Gcd(b, a % b)

\* the float num/den, as a fraction in lowest terms
Frac(num, den) == LET g == Gcd(num, den) IN [num |-> num \div g, den |-> den \div g]

\* ValidationHelper.validate_reading_progress
validate_reading_progress(current_page, total_pages) ==
    /\ ~(current_page < 0)
    /\ ~(Truthy(total_pages) /\ total_pages < 1)
    /\ ~(Truthy(total_pages) /\ current_page > total_pages)

\* the percentage without the clamp min(100.0, ...)
ProgressPercentageUnclamped(current_page, total_pages) ==
    IF Truthy(total_pages) /\ total_pages > 0
    THEN Frac(100 * current_page, total_pages)
    ELSE Frac(0, 1)

\* min(100.0, (current_page / total_pages) * 100), or 0.0 without a positive total
ProgressPercentage(current_page, total_pages) ==
    IF Truthy(total_pages) /\ total_pages > 0
    THEN IF current_page >= total_pages THEN Frac(100, 1)
         ELSE Frac(100 * current_page, total_pages)
    ELSE Frac(0, 1)

get_user_book_progress(user_id, book_id) ==
    {g \in progress : g.user_id = user_id /\ g.book_id = book_id}

\* ReadingProgressRepository.create_or_update_progress: the row it commits
ProgressRow(user_id, book_id, current_page, total_pages) ==
    LET existing == get_user_book_progress(user_id, book_id)
        total == IF existing = {}
                 THEN IF total_pages = Null
                      THEN IF book_id \in DOMAIN books
                           THEN PyOr(books[book_id].total_pages, books[book_id].nombre_pages)
                           ELSE Null
                      ELSE total_pages
                 ELSE IF Truthy(total_pages) THEN total_pages
                      ELSE (CHOOSE g \in existing : TRUE).total_pages
    IN  [user_id |-> user_id, book_id |-> book_id, current_page |-> current_page,
         total_pages |-> total,
         progress_percentage |-> ProgressPercentage(current_page, total)]

create_or_update_progress(user_id, book_id, current_page, total_pages) ==
    (progress \ get_user_book_progress(user_id, book_id))
        \cup {ProgressRow(user_id, book_id, current_page, total_pages)}

\* is_finished with > for >=
is_finished_strict(g) == g.progress_percentage.num > 100 * g.progress_percentage.den

\* ReadingProgress.is_finished / is_in_progress / is_started / get_progress_status
is_finished(g) == g.progress_percentage.num >= 100 * g.progress_percentage.den
is_started(g) == g.progress_percentage.num > 0
is_in_progress(g) ==
    /\ 0 < g.progress_percentage.num
    /\ g.progress_percentage.num < 100 * g.progress_percentage.den
get_progress_status(g) ==
    IF is_finished(g) THEN "Finished"
    ELSE IF is_in_progress(g) THEN "In Progress"
    ELSE IF is_started(g) THEN "Started"
    ELSE "Not Started"

\* ReadingProgress.to_dict
ProgressDict(g) ==
    [current_page |-> g.current_page, total_pages |-> g.total_pages,
     progress_percentage |-> g.progress_percentage, status |-> get_progress_status(g)]

\* ReadingProgressController.update_reading_progress
update_reading_progress(user_id, book_id, current_page, total_pages) ==
    /\ user_id \in users
    /\ IF ~validate_reading_progress(current_page, total_pages)
       THEN /\ response' = Resp("update_reading_progress", "invalid")
            /\ UNCHANGED progress
       ELSE IF book_id \notin DOMAIN books
       THEN /\ response' = Resp("update_reading_progress", "exception")
            /\ UNCHANGED progress
       ELSE /\ progress' = create_or_update_progress(user_id, book_id, current_page, total_pages)
            /\ response' = [Resp("update_reading_progress", "ok")
                              EXCEPT !.data = {ProgressDict(
                                  ProgressRow(user_id, book_id, current_page, total_pages))}]
    /\ UNCHANGED <<ext, users, books, reviews, cache, reqs>>

\* ReadingProgressController.mark_book_as_finished
mark_book_as_finished(user_id, book_id) ==
    /\ user_id \in users
    /\ IF book_id \notin DOMAIN books
       THEN /\ response' = Resp("mark_book_as_finished", "none")
            /\ UNCHANGED progress
       ELSE LET total == PyOr(PyOr(books[book_id].total_pages, books[book_id].nombre_pages),
                              DefaultTotalPages)
            IN  /\ progress' = create_or_update_progress(user_id, book_id, total, total)
                /\ response' = [Resp("mark_book_as_finished", "ok")
                                  EXCEPT !.data = {ProgressDict(
                                      ProgressRow(user_id, book_id, total, total))}]
    /\ UNCHANGED <<ext, users, books, reviews, cache, reqs>>

\* ReadingProgressController.delete_reading_progress
delete_reading_progress(user_id, book_id) ==
    /\ user_id \in users
    /\ LET existing == get_user_book_progress(user_id, book_id) IN
       /\ progress' = progress \ existing
       /\ response' = Resp("delete_reading_progress",
                           IF existing = {} THEN "not_found" ELSE "ok")
    /\ UNCHANGED <<ext, users, books, reviews, cache, reqs>>

\* ------------------------------------------------------------------
\* Paginated listings
\* ------------------------------------------------------------------
\* the largest page_size of ValidationHelper.validate_pagination
MaxPageSize == 100

\* the page size of the listing test (15 books, page_size=10)
ExamplePageSize == 10

PageInputs == 0..MaxListPage
PageSizeInputs == {0, 1, ExamplePageSize, MaxPageSize + 1}

\* ValidationHelper.validate_pagination: is_valid, and the page and page_size it returns
validate_pagination(page, page_size) ==
    [is_valid |-> ~(page < 1) /\ ~(page_size < 1) /\ ~(page_size > MaxPageSize),
     page |-> IF page < 1 THEN 1 ELSE page,
     page_size |-> LET low == IF page_size < 1 THEN 1 ELSE page_size
                   IN  IF low > MaxPageSize THEN MaxPageSize ELSE low]

\* the ids of a result set in the order of the query (ascending, or descending)
RECURSIVE Ordered(_, _)
Ordered(ids, descending) ==
    IF ids = {} THEN <<>>
    ELSE LET first == IF descending
                      THEN CHOOSE i \in ids : \A j \in ids : j <= i
                      ELSE CHOOSE i \in ids : \A j \in ids : i <= j
         IN  <<first>> \o Ordered(ids \ {first}, descending)

\* query.offset((page - 1) * page_size).limit(page_size) and the page metadata,
\* as every paginated repository method computes them
paginate(items, page, page_size) ==
    LET total_count == Len(items)
        offset == (page - 1) * page_size
        last == IF offset + page_size < total_count THEN offset + page_size ELSE total_count
        total_pages == (total_count + page_size - 1) \div page_size
    IN  [items |-> SubSeq(items, offset + 1, last),
         total_count |-> total_count,
         total_pages |-> total_pages,
         current_page |-> page,
         page_size |-> page_size,
         has_next |-> page < total_pages,
         has_previous |-> page > 1]

\* a listing served by a controller that validates and then queries
Listing(op, items, page, page_size) ==
    LET pagination_validation == validate_pagination(page, page_size) IN
    IF ~pagination_validation.is_valid
    THEN Resp(op, "invalid")
    ELSE [Resp(op, "ok") EXCEPT !.data =
             {paginate(items, pagination_validation.page, pagination_validation.page_size)}]

\* md5 digests of the books_paginated keys, by <<page, page_size>>
Md5BooksPage ==
    (<<1, 1>> :> <<"9","5","7","7","b","a","9","d","b","a","9","4","6","2","8","a","d","3","0","a","8","6","2","7","3","0","4","1","6","a","c","8">>) @@
    (<<2, 1>> :> <<"9","e","8","a","4","1","b","4","2","4","3","2","3","3","7","3","0","8","7","5","6","8","8","8","6","d","3","b","8","7","a","a">>) @@
    (<<3, 1>> :> <<"c","4","e","7","c","a","3","8","a","8","a","0","b","e","e","b","c","d","8","0","1","9","a","9","f","5","0","a","0","8","d","8">>) @@
    (<<4, 1>> :> <<"8","6","e","9","0","0","c","2","c","9","3","0","c","a","f","c","2","7","4","1","7","1","1","a","e","c","5","9","f","5","e","5">>) @@
    (<<5, 1>> :> <<"6","2","4","1","3","0","c","5","5","7","e","c","2","b","7","e","5","9","a","7","9","8","4","0","f","f","2","1","5","c","b","5">>) @@
    (<<6, 1>> :> <<"2","5","8","1","3","3","0","d","b","1","8","e","2","7","9","6","3","a","f","a","3","b","f","2","3","f","6","6","7","4","7","c">>) @@
    (<<1, 10>> :> <<"2","b","6","9","e","e","8","1","6","5","4","6","1","5","d","d","c","e","d","9","2","4","7","6","c","4","2","6","8","4","b","b">>) @@
    (<<2, 10>> :> <<"b","9","9","1","f","0","c","4","5","d","7","c","e","b","2","f","b","8","b","6","1","6","2","c","0","6","5","6","f","7","e","0">>) @@
    (<<3, 10>> :> <<"4","1","b","d","b","5","9","3","8","d","7","3","8","2","a","7","5","c","6","8","7","7","f","e","7","9","8","3","6","e","7","4">>) @@
    (<<4, 10>> :> <<"4","e","3","4","6","e","f","9","d","6","8","8","e","7","e","0","2","2","5","7","9","5","5","5","a","9","b","0","0","2","c","4">>) @@
    (<<5, 10>> :> <<"1","3","f","e","f","3","1","7","7","d","9","e","8","e","9","f","b","a","7","d","5","7","3","d","f","2","0","2","a","e","2","5">>) @@
    (<<6, 10>> :> <<"6","b","9","5","1","7","d","5","8","f","4","a","b","6","4","f","9","0","5","2","6","1","1","c","8","8","8","e","a","e","d","d">>)

\* BookController.get_books_paginated(page, page_size), other parameters default
get_books_page(page, page_size) ==
    /\ IF ~validate_pagination(page, page_size).is_valid
       THEN /\ response' = Resp("get_books_page", "invalid")
            /\ UNCHANGED cache
       ELSE LET cache_key == Md5BooksPage[<<page, page_size>>] IN
            IF cache_key \in DOMAIN cache
            THEN /\ response' = cache[cache_key]
                 /\ UNCHANGED cache
            ELSE LET data == Listing("get_books_page", Ordered(DOMAIN books, FALSE),
                                     page, page_size)
                 IN  /\ response' = data
                     /\ cache' = (cache_key :> data) @@ cache
    /\ UNCHANGED <<users, books, reviews, progress, reqs, ext>>

\* ReviewController.get_book_reviews (newest first)
get_book_reviews(book_id, page, page_size) ==
    /\ response' = Listing("get_book_reviews",
                           Ordered({r.id : r \in ReviewsOfBook(reviews, book_id)}, TRUE),
                           page, page_size)
    /\ UNCHANGED <<users, books, reviews, progress, cache, reqs, ext>>

\* ReviewController.get_user_reviews (newest first)
get_user_reviews(user_id, page, page_size) ==
    /\ response' = Listing("get_user_reviews",
                           Ordered({r.id : r \in {x \in reviews : x.user_id = user_id}}, TRUE),
                           page, page_size)
    /\ UNCHANGED <<users, books, reviews, progress, cache, reqs, ext>>

\* UserRepository.get_user_favorites_paginated: user.livres_favoris
FavoritesOf(user_id) ==
    IF user_id \in users THEN {f[2] : f \in {x \in favorites : x[1] = user_id}} ELSE {}

\* GET /user/favorites: UserController.get_user_favorites returns the page
\* under the key "books"; the route reads result["items"]
get_user_favorites(user_id, page, page_size) ==
    /\ LET result == Listing("get_user_favorites", Ordered(FavoritesOf(user_id), FALSE),
                             page, page_size)
       IN  response' = IF result.result = "ok"
                       THEN Resp("get_user_favorites", "exception")
                       ELSE result
    /\ UNCHANGED <<users, books, reviews, progress, cache, reqs, ext>>

\* AdminUserController.get_users_paginated (newest first)
get_users_paginated(page, page_size) ==
    /\ response' = Listing("get_users_paginated", Ordered(users, TRUE), page, page_size)
    /\ UNCHANGED <<users, books, reviews, progress, cache, reqs, ext>>

\* AdminReviewController.get_reviews_paginated (newest first)
get_reviews_paginated(page, page_size) ==
    /\ response' = Listing("get_reviews_paginated", Ordered({r.id : r \in reviews}, TRUE),
                           page, page_size)
    /\ UNCHANGED <<users, books, reviews, progress, cache, reqs, ext>>

\* ------------------------------------------------------------------
\* Sessions and authentication
\* ------------------------------------------------------------------
Tokens == 1..MaxTokens

\* an Authorization header: absent, "Bearer <token>", or the bare "<token>"
NoHeader == [present |-> FALSE, bearer |-> FALSE, token |-> 0]
Headers == {NoHeader} \cup [present : {TRUE}, bearer : BOOLEAN, token : Tokens]

\* AuthHelper.get_session: the user id stored under session:<token>, or None
get_session(token) == IF token \in DOMAIN sessions THEN sessions[token] ELSE Null

\* AuthHelper.delete_session
delete_session(ss, token) == [t \in DOMAIN ss \ {token} |-> ss[t]]

\* UserController.get_user_by_token: the user, if the session exists and the
\* user exists and is active
get_user_by_token(token) ==
    LET user_id == get_session(token) IN
    IF user_id = Null THEN Null
    ELSE IF user_id \notin users \/ ~accounts[user_id].is_active THEN Null
    ELSE user_id

\* get_user_by_token deletes the session of a missing or inactive user
SessionsAfterLookup(token) ==
    IF get_session(token) # Null /\ get_user_by_token(token) = Null
    THEN delete_session(sessions, token)
    ELSE sessions

\* the dependency without the test of the "Bearer " prefix
get_current_user_any_scheme(header) ==
    IF ~header.present THEN Null
    ELSE get_user_by_token(header.token)

\* routes/auth_routes.py get_current_user: the user of the request, or None (401)
get_current_user(header) ==
    IF ~header.present \/ ~header.bearer THEN Null
    ELSE get_user_by_token(header.token)

\* the request is answered 401 by the dependency get_current_user
Unauthorized(op, header) ==
    /\ get_current_user(header) = Null
    /\ response' = Resp(op, "401")
    /\ sessions' = IF header.present /\ header.bearer
                   THEN SessionsAfterLookup(header.token)
                   ELSE sessions
    /\ UNCHANGED <<users, books, reviews, progress, cache, reqs,
                   favorites, accounts, issued, pages>>

\* UserController.authenticate_user with the user's email: a fresh token is
\* stored when the user is active and the password verifies
authenticate_user(user_id, password_ok) ==
    /\ Cardinality(issued) < MaxTokens
    /\ IF user_id \in users /\ accounts[user_id].is_active /\ password_ok
       THEN LET token == CHOOSE t \in Tokens \ issued : \A x \in Tokens \ issued : t <= x
            IN  /\ sessions' = (token :> user_id) @@ sessions
                /\ issued' = issued \cup {token}
                /\ response' = [Resp("authenticate_user", "ok")
                                  EXCEPT !.data = {[token |-> token, user_id |-> user_id]}]
       ELSE /\ response' = Resp("authenticate_user", "401")
            /\ UNCHANGED <<sessions, issued>>
    /\ UNCHANGED <<users, books, reviews, progress, cache, reqs, favorites, accounts, pages>>

\* POST /auth/logout
logout_user(header) ==
    /\ IF ~header.present \/ ~header.bearer
       THEN /\ response' = Resp("logout_user", "401")
            /\ UNCHANGED sessions
       ELSE /\ sessions' = delete_session(sessions, header.token)
            /\ response' = [Resp("logout_user", "ok")
                              EXCEPT !.data = {[token |-> header.token]}]
    /\ UNCHANGED <<users, books, reviews, progress, cache, reqs,
                   favorites, accounts, issued, pages>>

\* the TTL of a session runs out
SessionExpire(token) ==
    /\ token \in DOMAIN sessions
    /\ sessions' = delete_session(sessions, token)
    /\ response' = NoResponse
    /\ UNCHANGED <<users, books, reviews, progress, cache, reqs,
                   favorites, accounts, issued, pages>>

\* ---- endpoints behind Depends(get_current_user) ----
\* GET /user/profile
get_user_profile(header) ==
    \/ Unauthorized("get_user_profile", header)
    \/ /\ get_current_user(header) # Null
       /\ response' = [Resp("get_user_profile", "ok")
                         EXCEPT !.data = {[token |-> header.token,
                                           user_id |-> get_current_user(header)]}]
       /\ UNCHANGED <<users, books, reviews, progress, cache, reqs, ext>>

\* UserRepository.add_favorite_book
add_favorite_book(user_id, book_id) ==
    /\ IF user_id \notin users \/ book_id \notin DOMAIN books
       THEN /\ response' = Resp("add_favorite_book", "400")
            /\ UNCHANGED favorites
       ELSE /\ favorites' = favorites \cup {<<user_id, book_id>>}
            /\ response' = Resp("add_favorite_book", "ok")
    /\ UNCHANGED <<users, books, reviews, progress, cache, reqs,
                   accounts, sessions, issued, pages>>

\* UserRepository.remove_favorite_book
remove_favorite_book(user_id, book_id) ==
    /\ IF user_id \notin users \/ book_id \notin DOMAIN books
       THEN /\ response' = Resp("remove_favorite_book", "404")
            /\ UNCHANGED favorites
       ELSE /\ favorites' = favorites \ {<<user_id, book_id>>}
            /\ response' = Resp("remove_favorite_book", "ok")
    /\ UNCHANGED <<users, books, reviews, progress, cache, reqs,
                   accounts, sessions, issued, pages>>

\* POST /user/favorites/{book_id}
route_add_favorite_book(header, book_id) ==
    \/ Unauthorized("add_favorite_book", header)
    \/ /\ get_current_user(header) # Null
       /\ add_favorite_book(get_current_user(header), book_id)

\* DELETE /user/favorites/{book_id}
route_remove_favorite_book(header, book_id) ==
    \/ Unauthorized("remove_favorite_book", header)
    \/ /\ get_current_user(header) # Null
       /\ remove_favorite_book(get_current_user(header), book_id)

\* GET /user/favorites
route_get_user_favorites(header, page, page_size) ==
    \/ Unauthorized("get_user_favorites", header)
    \/ /\ get_current_user(header) # Null
       /\ get_user_favorites(get_current_user(header), page, page_size)

\* POST /reviews
route_create_review(header, book_id, rating) ==
    \/ Idle(1) /\ Unauthorized("create_review", header)
    \/ /\ get_current_user(header) # Null
       /\ CreateReviewBegin(1, get_current_user(header), book_id, rating)

\* PUT /reviews/{review_id}
route_update_review(header, review_id, rating) ==
    \/ Idle(1) /\ Unauthorized("update_review", header)
    \/ /\ get_current_user(header) # Null
       /\ UpdateReviewBegin(1, review_id, get_current_user(header), rating)

\* DELETE /reviews/{review_id}
route_delete_review(header, review_id) ==
    \/ Idle(1) /\ Unauthorized("delete_review", header)
    \/ /\ get_current_user(header) # Null
       /\ DeleteReviewBegin(1, review_id, get_current_user(header))

\* GET /reviews/user/my-reviews
route_get_user_reviews(header, page, page_size) ==
    \/ Unauthorized("get_user_reviews", header)
    \/ /\ get_current_user(header) # Null
       /\ get_user_reviews(get_current_user(header), page, page_size)

\* ReadingProgressController.get_reading_progress
get_reading_progress(user_id, book_id) ==
    /\ LET existing == get_user_book_progress(user_id, book_id) IN
       response' = IF existing = {} THEN Resp("get_reading_progress", "404")
                   ELSE [Resp("get_reading_progress", "ok")
                           EXCEPT !.data = {ProgressDict(g) : g \in existing}]
    /\ UNCHANGED <<users, books, reviews, progress, cache, reqs, ext>>

\* GET /reading-progress/{book_id}
route_get_reading_progress(header, book_id) ==
    \/ Unauthorized("get_reading_progress", header)
    \/ /\ get_current_user(header) # Null
       /\ get_reading_progress(get_current_user(header), book_id)

\* PUT /reading-progress/{book_id}
route_update_reading_progress(header, book_id, current_page, total_pages) ==
    \/ Unauthorized("update_reading_progress", header)
    \/ /\ get_current_user(header) # Null
       /\ update_reading_progress(get_current_user(header), book_id, current_page, total_pages)

\* DELETE /reading-progress/{book_id}
route_delete_reading_progress(header, book_id) ==
    \/ Unauthorized("delete_reading_progress", header)
    \/ /\ get_current_user(header) # Null
       /\ delete_reading_progress(get_current_user(header), book_id)

\* ------------------------------------------------------------------
\* Admin endpoints (middleware/admin_middleware.py, routes/admin_*.py)
\* ------------------------------------------------------------------
\* middleware get_current_user: the token is the header with "Bearer "
\* removed, so a bare token is accepted too; the user must exist and be active
mw_get_current_user(header) ==
    IF ~header.present THEN Null
    ELSE LET user_id == get_session(header.token) IN
         IF user_id = Null THEN Null
         ELSE IF user_id \in users /\ accounts[user_id].is_active THEN user_id
         ELSE Null

\* getattr(user, 'is_admin', False): the mapped class User declares no
\* attribute is_admin, so the default is what getattr returns
UserIsAdminAttr(user_id) == FALSE

\* AdminHelper.is_admin
is_admin(user_id) ==
    /\ user_id # Null
    /\ UserIsAdminAttr(user_id)
    /\ accounts[user_id].is_active

\* require_admin over require_auth: 401 without a user, 403 without the role
require_admin(header) ==
    IF mw_get_current_user(header) = Null THEN "401"
    ELSE IF ~is_admin(mw_get_current_user(header)) THEN "403"
    ELSE "ok"

\* the dependency raises and the handler does not run
AdminDenied(op, header) ==
    /\ response' = Resp(op, require_admin(header))
    /\ UNCHANGED <<users, books, reviews, progress, cache, reqs, ext>>

\* AdminUserController.suspend_user: deactivate_user, then
\* invalidate_user_sessions
suspend_user(user_id) ==
    /\ IF user_id \notin users
       THEN /\ response' = Resp("suspend_user", "USER_NOT_FOUND")
            /\ UNCHANGED <<accounts, sessions>>
       ELSE /\ accounts' = [accounts EXCEPT ![user_id].is_active = FALSE]
            /\ sessions' = invalidate_user_sessions(user_id)
            /\ response' = [Resp("suspend_user", "ok")
                              EXCEPT !.data = {[user_id |-> user_id]}]
    /\ UNCHANGED <<users, books, reviews, progress, cache, reqs,
                   favorites, issued, pages>>

\* AdminUserController.activate_user
activate_user(user_id) ==
    /\ IF user_id \notin users
       THEN /\ response' = Resp("activate_user", "USER_NOT_FOUND")
            /\ UNCHANGED accounts
       ELSE /\ accounts' = [accounts EXCEPT ![user_id].is_active = TRUE]
            /\ response' = Resp("activate_user", "ok")
    /\ UNCHANGED <<users, books, reviews, progress, cache, reqs,
                   favorites, sessions, issued, pages>>

\* AdminUserController.reset_user_password: the hash is replaced, then every
\* session of the user is invalidated; a weak password changes nothing
reset_user_password(user_id, strong) ==
    /\ IF user_id \notin users
       THEN /\ response' = Resp("reset_user_password", "USER_NOT_FOUND")
            /\ UNCHANGED sessions
       ELSE IF ~strong
       THEN /\ response' = Resp("reset_user_password", "WEAK_PASSWORD")
            /\ UNCHANGED sessions
       ELSE /\ sessions' = invalidate_user_sessions(user_id)
            /\ response' = [Resp("reset_user_password", "ok")
                              EXCEPT !.data = {[user_id |-> user_id]}]
    /\ UNCHANGED <<users, books, reviews, progress, cache, reqs,
                   favorites, accounts, issued, pages>>

\* AdminUserController.get_users_paginated behind require_admin
route_get_users(header, page, page_size) ==
    IF require_admin(header) = "ok"
    THEN get_users_paginated(page, page_size)
    ELSE AdminDenied("get_users_paginated", header)

\* "Cannot suspend / delete / revoke your own account": the handler raises
\* 400 before it calls the controller
SelfTargetRefused(op) ==
    /\ response' = Resp(op, "400")
    /\ UNCHANGED <<users, books, reviews, progress, cache, reqs, ext>>

route_suspend_user(header, user_id) ==
    IF require_admin(header) # "ok"
    THEN AdminDenied("suspend_user", header)
    ELSE IF user_id = mw_get_current_user(header)
    THEN SelfTargetRefused("suspend_user")
    ELSE suspend_user(user_id)

route_delete_user(header, user_id) ==
    IF require_admin(header) # "ok"
    THEN AdminDenied("admin_delete_user", header)
    ELSE IF user_id = mw_get_current_user(header)
    THEN SelfTargetRefused("admin_delete_user")
    ELSE AdminDeleteUser(user_id)

\* AdminUserController.revoke_admin: the lookup, then the read of
\* user.is_admin, an attribute the loaded User object does not have
revoke_admin(user_id) ==
    /\ response' = Resp("revoke_admin",
                        IF user_id \notin users THEN "USER_NOT_FOUND" ELSE "exception")
    /\ UNCHANGED <<users, books, reviews, progress, cache, reqs, ext>>

route_revoke_admin(header, user_id) ==
    IF require_admin(header) # "ok"
    THEN AdminDenied("revoke_admin", header)
    ELSE IF user_id = mw_get_current_user(header)
    THEN SelfTargetRefused("revoke_admin")
    ELSE revoke_admin(user_id)

route_admin_delete_review(header, review_id) ==
    IF require_admin(header) = "ok"
    THEN AdminDeleteReview(review_id)
    ELSE AdminDenied("admin_delete_review", header)

\* routes/admin_csv_routes.py: the handlers depend on get_db only, so the
\* Authorization header is not read
route_import_reviews_csv(header, rows) == import_reviews_csv(rows)

\* GET /admin/reviews/export: every review row is written to the file
route_export_reviews_csv(header) ==
    /\ response' = [Resp("export_reviews_csv", "ok") EXCEPT !.data = reviews]
    /\ UNCHANGED <<users, books, reviews, progress, cache, reqs, ext>>

\* ---- UserController.authenticate_user as it interleaves with other requests ----
\* the logins between their two halves
PendingLogins == Cardinality({p \in Procs : reqs[p].pc = "store_session"})

\* first half: find_active_by_email and verify_password
authenticate_user_verify(p, user_id, password_ok) ==
    /\ Idle(p)
    /\ Cardinality(issued) + PendingLogins < MaxTokens
    /\ IF user_id \in users /\ accounts[user_id].is_active /\ password_ok
       THEN /\ reqs' = [reqs EXCEPT ![p] = [IdleReq EXCEPT !.pc = "store_session",
                                                           !.op = "authenticate_user",
                                                           !.user_id = user_id]]
            /\ response' = NoResponse
       ELSE /\ response' = Resp("authenticate_user", "401")
            /\ UNCHANGED reqs
    /\ UNCHANGED <<users, books, reviews, progress, cache, ext>>

\* second half: generate_session_token and store_session
authenticate_user_store(p) ==
    /\ reqs[p].pc = "store_session"
    /\ LET token == CHOOSE t \in Tokens \ issued : \A x \in Tokens \ issued : t <= x
       IN  /\ sessions' = (token :> reqs[p].user_id) @@ sessions
           /\ issued' = issued \cup {token}
           /\ response' = [Resp("authenticate_user", "ok")
                             EXCEPT !.data = {[token |-> token,
                                               user_id |-> reqs[p].user_id]}]
    /\ reqs' = [reqs EXCEPT ![p] = IdleReq]
    /\ UNCHANGED <<users, books, reviews, progress, cache, favorites, accounts, pages>>

\* a users row as the class User maps it: active
NewAccount == [is_active |-> TRUE]

NewBook(total_pages, nombre_pages) ==
    [average_rating |-> 0, review_count |-> 0,
     total_pages |-> total_pages, nombre_pages |-> nombre_pages]

\* ------------------------------------------------------------------
\* Books: ISBN, deletion, pages
\* ------------------------------------------------------------------
Isbns == 1..MaxIsbn
PageIds == 1..MaxPages
PageNumbers == 1..MaxPageNumber

\* a books row with its isbn and titre columns
BookRow(isbn) == [isbn |-> isbn, titre |-> 1] @@ NewBook(Null, Null)

\* BookRepository.isbn_exists
isbn_exists(isbn) == \E b \in DOMAIN books : books[b].isbn = isbn

\* the unique index on books.isbn would be violated by giving isbn to book_id
IsbnHeldByOther(book_id, isbn) ==
    \E b \in DOMAIN books \ {book_id} : books[b].isbn = isbn

\* AdminBookController.create_book: after the ISBN check the constructor is
\* called with image_couverture_url, which Book does not declare, and raises
create_book(isbn) ==
    /\ response' = Resp("create_book", IF isbn # Null /\ isbn_exists(isbn)
                                       THEN "ISBN_EXISTS" ELSE "exception")
    /\ UNCHANGED <<users, books, reviews, progress, cache, reqs, ext>>

\* AdminBookController.update_book, first half: get_by_id and the ISBN check
UpdateBookBegin(p, book_id, isbn) ==
    /\ Idle(p)
    /\ IF book_id \notin DOMAIN books
       THEN /\ response' = Resp("update_book", "BOOK_NOT_FOUND")
            /\ UNCHANGED reqs
       ELSE IF isbn # Null /\ isbn # books[book_id].isbn /\ isbn_exists(isbn)
       THEN /\ response' = Resp("update_book", "ISBN_EXISTS")
            /\ UNCHANGED reqs
       ELSE /\ reqs' = [reqs EXCEPT ![p] =
                           [isbn |-> isbn] @@ [IdleReq EXCEPT !.pc = "update_book_commit",
                                                              !.op = "update_book",
                                                              !.book_id = book_id]]
            /\ response' = NoResponse
    /\ UNCHANGED <<users, books, reviews, progress, cache, ext>>

\* second half: the commit, which raises when the row is gone or the unique
\* index on isbn is violated, then invalidate_book_cache
UpdateBookCommit(p) ==
    /\ reqs[p].pc = "update_book_commit"
    /\ LET q == reqs[p] IN
       IF \/ q.book_id \notin DOMAIN books
          \/ q.isbn # Null /\ IsbnHeldByOther(q.book_id, q.isbn)
       THEN /\ response' = Resp("update_book", "exception")
            /\ UNCHANGED <<books, cache>>
       ELSE /\ books' = IF q.isbn = Null THEN books
                        ELSE [books EXCEPT ![q.book_id].isbn = q.isbn]
            /\ cache' = invalidate_book_cache(cache, q.book_id)
            /\ response' = Resp("update_book", "ok")
    /\ reqs' = [reqs EXCEPT ![p] = IdleReq]
    /\ UNCHANGED <<users, reviews, progress, ext>>

\* routes/admin_csv_routes.py import_books_csv; a file is the sequence of the
\* ISBNs of its rows
BookCsvFiles == UNION {[1..n -> Isbns] : n \in 1..MaxCsvRows}

\* the rows added to the session: the query finds no book with the ISBN
\* (autoflush is off, so the books added for earlier rows are not seen)
BookCsvAdded(rows) == SelectSeq(rows, LAMBDA isbn : ~isbn_exists(isbn))

RECURSIVE FreshBookIds(_, _)
FreshBookIds(n, used) ==
    IF n = 0 THEN <<>>
    ELSE LET i == CHOOSE x \in BookIds \ used : \A y \in BookIds \ used : x <= y
         IN  <<i>> \o FreshBookIds(n - 1, used \cup {i})

\* the commit inserts the added rows, or raises on the unique index and
\* inserts none
import_books_csv(rows) ==
    /\ LET added == BookCsvAdded(rows) IN
       IF \E i, j \in 1..Len(added) : i # j /\ added[i] = added[j]
       THEN /\ response' = Resp("import_books_csv", "exception")
            /\ UNCHANGED books
       ELSE /\ Cardinality(BookIds \ DOMAIN books) >= Len(added)
            /\ LET ids == FreshBookIds(Len(added), DOMAIN books) IN
               books' = [b \in DOMAIN books \cup {ids[i] : i \in 1..Len(added)} |->
                            IF b \in DOMAIN books THEN books[b]
                            ELSE BookRow(added[CHOOSE i \in 1..Len(added) : ids[i] = b])]
            /\ response' = [Resp("import_books_csv", "ok")
                              EXCEPT !.data = {[imported_count |-> Len(added),
                                                errors |-> Len(rows) - Len(added)]}]
    /\ UNCHANGED <<users, reviews, progress, cache, reqs, ext>>

\* the delete leaves the reading-progress rows of the book in place
ProgressAfterBookDelete_kept(book_id) == progress

\* ReadingProgress.book_id: ForeignKey('books.id', ondelete='CASCADE')
ProgressAfterBookDelete(book_id) == {g \in progress : g.book_id # book_id}

\* AdminBookController.delete_book: db.delete(book) and commit; the ORM
\* cascade removes the reviews and pages and the rows of user_favorites, the
\* foreign key removes the reading progress; then invalidate_book_cache
delete_book(book_id) ==
    /\ IF book_id \notin DOMAIN books
       THEN /\ response' = Resp("delete_book", "BOOK_NOT_FOUND")
            /\ UNCHANGED <<books, reviews, pages, progress, favorites, cache>>
       ELSE /\ books' = [b \in DOMAIN books \ {book_id} |-> books[b]]
            /\ reviews' = {r \in reviews : r.book_id # book_id}
            /\ pages' = {g \in pages : g.book_id # book_id}
            /\ progress' = ProgressAfterBookDelete(book_id)
            /\ favorites' = {f \in favorites : f[2] # book_id}
            /\ cache' = invalidate_book_cache(cache, book_id)
            /\ response' = Resp("delete_book", "ok")
    /\ UNCHANGED <<users, reqs, accounts, sessions, issued>>

\* BookPageRepository.page_exists
page_exists(book_id, page_number) ==
    \E g \in pages : g.book_id = book_id /\ g.page_number = page_number

\* BookPageController.create_page
create_page(book_id, page_number) ==
    /\ IF book_id \notin DOMAIN books
       THEN /\ response' = Resp("create_page", "not_found")
            /\ UNCHANGED pages
       ELSE IF page_exists(book_id, page_number)
       THEN /\ response' = Resp("create_page", "none")
            /\ UNCHANGED pages
       ELSE /\ PageIds \ {g.id : g \in pages} # {}
            /\ LET id == CHOOSE x \in PageIds \ {g.id : g \in pages} :
                             \A y \in PageIds \ {g.id : g \in pages} : x <= y
               IN  pages' = pages \cup {[id |-> id, book_id |-> book_id,
                                         page_number |-> page_number]}
            /\ response' = Resp("create_page", "ok")
    /\ UNCHANGED <<users, books, reviews, progress, cache, reqs,
                   favorites, accounts, sessions, issued>>

\* a bulk request: the page numbers of its entries
BulkRequests == UNION {[1..n -> PageNumbers] : n \in 1..MaxBulk}

RECURSIVE FreshPageIds(_, _)
FreshPageIds(n, used) ==
    IF n = 0 THEN <<>>
    ELSE LET i == CHOOSE x \in PageIds \ used : \A y \in PageIds \ used : x <= y
         IN  <<i>> \o FreshPageIds(n - 1, used \cup {i})

\* the request repeats a page number or names a stored page of the book
BulkDuplicates(book_id, numbers) ==
    \/ \E i, j \in 1..Len(numbers) : i # j /\ numbers[i] = numbers[j]
    \/ \E i \in 1..Len(numbers) : page_exists(book_id, numbers[i])

\* BookPageRepository.create_pages_bulk: every entry is inserted
BulkStored(book_id, numbers) ==
    LET ids == FreshPageIds(Len(numbers), {g.id : g \in pages}) IN
    pages \cup {[id |-> ids[i], book_id |-> book_id, page_number |-> numbers[i]] :
                i \in 1..Len(numbers)}

\* BookPageController.create_pages_bulk: no test of page_exists; the pages
\* are inserted and the book's total_pages becomes the count of its pages.
\* BookPage declares no unique constraint, migration d489b094d797 declares
\* unique_book_page: on a database built by the migration the commit of a
\* duplicate raises and stores nothing, on one built from the models
\* (init_db) the duplicate is stored
create_pages_bulk(book_id, numbers) ==
    /\ IF book_id \notin DOMAIN books
       THEN /\ response' = Resp("create_pages_bulk", "not_found")
            /\ UNCHANGED <<pages, books>>
       ELSE \/ /\ BulkDuplicates(book_id, numbers)
               /\ response' = Resp("create_pages_bulk", "exception")
               /\ UNCHANGED <<pages, books>>
            \/ /\ Cardinality(PageIds \ {g.id : g \in pages}) >= Len(numbers)
               /\ pages' = BulkStored(book_id, numbers)
               /\ books' = [books EXCEPT ![book_id].total_pages =
                               Cardinality({g \in BulkStored(book_id, numbers) :
                                               g.book_id = book_id})]
               /\ response' = Resp("create_pages_bulk", "ok")
    /\ UNCHANGED <<users, reviews, progress, cache, reqs,
                   favorites, accounts, sessions, issued>>

\* ---- AdminBookController.update_book, one request at a time ----
\* the titles a request sends: none, the empty string (0), a new title
TitleInputs == {Null, 0, 2}

\* the session flushes the loaded book when the handler returns ISBN_EXISTS
RowsAfterIsbnExists_flushed(book_id, loaded) == [books EXCEPT ![book_id] = loaded]

\* the handler returns without a commit and get_db closes the session: what
\* was assigned on the loaded book is rolled back
RowsAfterIsbnExists(book_id, loaded) == books

\* get_by_id, the title assigned on the loaded book, the ISBN test, the
\* isbn assigned, commit, invalidate_book_cache
update_book(book_id, titre, isbn) ==
    /\ IF book_id \notin DOMAIN books
       THEN /\ response' = Resp("update_book", "BOOK_NOT_FOUND")
            /\ UNCHANGED <<books, cache>>
       ELSE IF titre = 0
       THEN /\ response' = Resp("update_book", "INVALID_TITLE")
            /\ UNCHANGED <<books, cache>>
       ELSE LET loaded == IF titre = Null THEN books[book_id]
                          ELSE [books[book_id] EXCEPT !.titre = titre]
            IN  IF isbn # Null /\ isbn # loaded.isbn /\ isbn_exists(isbn)
                THEN /\ response' = Resp("update_book", "ISBN_EXISTS")
                     /\ books' = RowsAfterIsbnExists(book_id, loaded)
                     /\ UNCHANGED cache
                ELSE /\ books' = [books EXCEPT ![book_id] =
                                     IF isbn = Null THEN loaded
                                     ELSE [loaded EXCEPT !.isbn = isbn]]
                     /\ cache' = invalidate_book_cache(cache, book_id)
                     /\ response' = Resp("update_book", "ok")
    /\ UNCHANGED <<users, reviews, progress, reqs, ext>>

\* ---------------------------------------------------------------------------
\* Error dictionaries and the status the routes derive from them
\* ---------------------------------------------------------------------------

HTTP_201_CREATED == 201
HTTP_400_BAD_REQUEST == 400
HTTP_409_CONFLICT == 409

NoCode == "NO_CODE"

\* The "code" key of the dictionary a controller returns for a result:
\* error_response adds it only when a code is passed, and create_review
\* builds its error dictionaries by hand, without one.
error_code(resp) ==
    IF resp.op = "update_book" /\ resp.result \in {"BOOK_NOT_FOUND", "INVALID_TITLE", "ISBN_EXISTS"}
    THEN resp.result
    ELSE NoCode

\* POST /reviews/books/{book_id}: the status the route answers for the
\* controller's result.
create_review_status(resp) ==
    IF resp.result \in {"invalid", "duplicate", "none"}
    THEN IF error_code(resp) = "DUPLICATE_REVIEW"
         THEN HTTP_409_CONFLICT
         ELSE HTTP_400_BAD_REQUEST
    ELSE HTTP_201_CREATED

\* ---------------------------------------------------------------------------
\* Sorted review listings
\* ---------------------------------------------------------------------------

MaxSortRows == 3

SortFields == {"created_at", "rating", "updated_at", "title"}
SortOrders == {"asc", "desc", "up"}
BookReviewSortFields == <<"created_at", "rating", "updated_at">>

\* ValidationHelper.validate_sort_params
validate_sort_params(sort_by, sort_order, allowed_fields) ==
    LET known == \E i \in DOMAIN allowed_fields : allowed_fields[i] = sort_by
    IN  [is_valid |-> known /\ sort_order \in {"asc", "desc"},
         sort_by |-> IF known THEN sort_by ELSE allowed_fields[1],
         sort_order |-> IF sort_order \in {"asc", "desc"} THEN sort_order ELSE "asc"]

\* ReviewRepository.get_book_reviews, "Apply sorting": the column of the
\* ORDER BY clause
sort_column(sort_by) ==
    IF sort_by = "rating" THEN "rating"
    ELSE IF sort_by = "created_at" THEN "created_at"
    ELSE "created_at"

\* rows come back in an order that is sorted on the column; rows that are
\* equal on it come back in any order
IsOrderedBy(items, column, sort_order) ==
    \A i, j \in DOMAIN items :
        i < j => IF sort_order = "desc"
                 THEN items[i][column] >= items[j][column]
                 ELSE items[i][column] <= items[j][column]

order_by(rows, column, sort_order) ==
    {items \in [1..Cardinality(rows) -> rows] :
        /\ \A i, j \in DOMAIN items : i # j => items[i] # items[j]
        /\ IsOrderedBy(items, column, sort_order)}

\* ReviewController.get_book_reviews: the sort parameters are validated,
\* then the repository runs the query
get_book_reviews_sorted(book_id, sort_by, sort_order) ==
    LET v == validate_sort_params(sort_by, sort_order, BookReviewSortFields)
        asked == [sort_by |-> sort_by, sort_order |-> sort_order]
    IN  /\ IF ~v.is_valid
           THEN response' = asked @@ Resp("get_book_reviews", "invalid")
           ELSE \E items \in order_by({r \in reviews : r.book_id = book_id},
                                      sort_column(v.sort_by), v.sort_order) :
                    response' = asked @@ [Resp("get_book_reviews", "ok") EXCEPT !.data = items]
        /\ UNCHANGED <<users, books, reviews, progress, cache, reqs, ext>>

\* ------------------------------------------------------------------
\* Specifications
\* ------------------------------------------------------------------
\* a database holding the users and one book, and no review or progress row;
\* the other book ids name no row
InitBookIds == {1}

Init ==
    /\ users = UserIds
    /\ books = [b \in InitBookIds |-> NewBook(Null, Null)]
    /\ reviews = {}
    /\ progress = {}
    /\ cache = <<>>
    /\ reqs = [p \in Procs |-> IdleReq]
    /\ response = NoResponse
    /\ favorites = {}
    /\ accounts = [u \in users |-> NewAccount]
    /\ sessions = <<>>
    /\ issued = {}
    /\ pages = {}

Quiescent == \A p \in Procs : Idle(p)

\* a request handler starts
ReviewCall(p) ==
    \/ \E u \in UserIds, b \in BookIds, r \in RatingInputs : CreateReviewBegin(p, u, b, r)
    \/ \E i \in ReviewIds, u \in UserIds, r \in RatingInputs \cup {Null} :
          UpdateReviewBegin(p, i, u, r)
    \/ \E i \in ReviewIds, u \in UserIds : DeleteReviewBegin(p, i, u)

\* a request handler in flight takes its next step
ReviewStep(p) ==
    \/ CreateReviewInsert(p)
    \/ StatsRead(p)
    \/ StatsWrite(p)
    \/ Finish(p)

AdminCall ==
    \/ \E i \in ReviewIds : AdminDeleteReview(i)
    \/ \E ids \in SUBSET ReviewIds : AdminBulkDeleteReviews(ids)
    \/ \E u \in UserIds : AdminDeleteUser(u)
    \/ \E rows \in CsvFiles : import_reviews_csv(rows)

CacheCall ==
    \/ \E b \in BookIds : get_book_details(b)
    \/ get_books_paginated
    \/ \E k \in DOMAIN cache : CacheExpire(k)

\* requests of the review endpoints, served concurrently
Next ==
    \/ \E p \in Procs : ReviewCall(p)
    \/ \E p \in Procs : ReviewStep(p)

Spec == Init /\ [][Next]_vars

\* every operation that writes reviews, one request at a time: a call starts
\* only when no request is in flight
SeqNext ==
    \/ Quiescent /\ ReviewCall(1)
    \/ ReviewStep(1)
    \/ Quiescent /\ AdminCall

SeqSpec == Init /\ [][SeqNext]_vars

\* the review endpoints and the cached book reads, one request at a time
CacheNext ==
    \/ Quiescent /\ ReviewCall(1)
    \/ ReviewStep(1)
    \/ Quiescent /\ CacheCall

CacheSpec == Init /\ [][CacheNext]_vars

\* reading progress of one reader over a book stored with or without page counts
BookTotalPages == {Null, 0, MaxPage - 1}
BookNombrePages == {Null, MaxPage}

ProgressInit ==
    /\ users = {1}
    /\ books \in [InitBookIds -> {NewBook(t, n) : t \in BookTotalPages, n \in BookNombrePages}]
    /\ reviews = {}
    /\ progress = {}
    /\ cache = <<>>
    /\ reqs = [p \in Procs |-> IdleReq]
    /\ response = NoResponse
    /\ favorites = {}
    /\ accounts = [u \in users |-> NewAccount]
    /\ sessions = <<>>
    /\ issued = {}
    /\ pages = {}

ProgressNext ==
    \/ \E u \in UserIds, b \in BookIds, c \in CurrentPageInputs, t \in TotalPagesInputs :
          update_reading_progress(u, b, c, t)
    \/ \E u \in UserIds, b \in BookIds : mark_book_as_finished(u, b)
    \/ \E u \in UserIds, b \in BookIds : delete_reading_progress(u, b)

ProgressSpec == ProgressInit /\ [][ProgressNext]_vars

\* listings over tables of 0..MaxListItems rows: the reviews are all of one
\* book by different users, or all by one user on different books
ListItemCounts == 0..MaxListItems
ListUser == 1
ListBook == 1

ListInit ==
    \E n \in ListItemCounts, one_book \in BOOLEAN :
        /\ users = 1..n
        /\ books = [b \in 1..n |-> NewBook(Null, Null)]
        /\ reviews = {[id |-> i,
                       user_id |-> IF one_book THEN i ELSE ListUser,
                       book_id |-> IF one_book THEN ListBook ELSE i,
                       rating |-> MaxRating] : i \in 1..n}
        /\ favorites = {<<ListUser, b>> : b \in 1..n}
        /\ accounts = [u \in users |-> NewAccount]
        /\ sessions = <<>>
        /\ issued = {}
        /\ pages = {}
        /\ progress = {}
        /\ cache = <<>>
        /\ reqs = [p \in Procs |-> IdleReq]
        /\ response = NoResponse

ListNext ==
    \E page \in PageInputs, page_size \in PageSizeInputs :
        \/ get_books_page(page, page_size)
        \/ get_book_reviews(ListBook, page, page_size)
        \/ get_user_reviews(ListUser, page, page_size)
        \/ get_user_favorites(ListUser, page, page_size)
        \/ get_users_paginated(page, page_size)
        \/ get_reviews_paginated(page, page_size)

ListSpec == ListInit /\ [][ListNext]_vars

\* the endpoints that require authentication, one request at a time, with
\* logins, logouts and session expiry; user 2 is suspended
UserInit ==
    /\ users = UserIds
    /\ books = [b \in InitBookIds |-> NewBook(Null, Null)]
    /\ reviews = {}
    /\ progress = {}
    /\ cache = <<>>
    /\ reqs = [p \in Procs |-> IdleReq]
    /\ response = NoResponse
    /\ favorites = {}
    /\ accounts = [u \in users |-> [NewAccount EXCEPT !.is_active = (u = 1)]]
    /\ sessions = <<>>
    /\ issued = {}
    /\ pages = {}

UserRequest(header) ==
    \/ \E b \in BookIds : route_create_review(header, b, MaxRating)
    \/ \E i \in ReviewIds : route_update_review(header, i, MinRating)
    \/ \E i \in ReviewIds : route_delete_review(header, i)
    \/ route_get_user_reviews(header, 1, ExamplePageSize)
    \/ \E b \in InitBookIds : route_get_reading_progress(header, b)
    \/ \E b \in InitBookIds : route_update_reading_progress(header, b, 1, MaxPage)
    \/ \E b \in InitBookIds : route_delete_reading_progress(header, b)
    \/ get_user_profile(header)
    \/ route_get_user_favorites(header, 1, ExamplePageSize)
    \/ \E b \in InitBookIds : route_add_favorite_book(header, b)
    \/ \E b \in InitBookIds : route_remove_favorite_book(header, b)

UserNext ==
    \/ Quiescent /\ \E header \in Headers : UserRequest(header)
    \/ ReviewStep(1)
    \/ Quiescent /\ \E u \in UserIds, ok \in BOOLEAN : authenticate_user(u, ok)
    \/ Quiescent /\ \E header \in Headers : logout_user(header)
    \/ Quiescent /\ \E t \in Tokens : SessionExpire(t)

UserSpec == UserInit /\ [][UserNext]_vars

\* the admin endpoints, one request at a time, called with every kind of
\* Authorization header, and logins of the two users
AdminEndpoint(header) ==
    \/ route_get_users(header, 1, ExamplePageSize)
    \/ \E u \in UserIds : route_suspend_user(header, u)
    \/ \E u \in UserIds : route_delete_user(header, u)
    \/ \E i \in ReviewIds : route_admin_delete_review(header, i)
    \/ \E rows \in CsvFiles : route_import_reviews_csv(header, rows)
    \/ route_export_reviews_csv(header)

AdminNext ==
    \/ \E header \in Headers : AdminEndpoint(header)
    \/ \E u \in UserIds, ok \in BOOLEAN : authenticate_user(u, ok)
    \/ \E u \in UserIds : suspend_user(u)
    \/ \E u \in UserIds : activate_user(u)

AdminSpec == Init /\ [][AdminNext]_vars

\* logins in two halves, logouts, session expiry, requests of authenticated
\* endpoints and the admin's operations on users, interleaved
SessionNext ==
    \/ \E p \in Procs, u \in UserIds, ok \in BOOLEAN : authenticate_user_verify(p, u, ok)
    \/ \E p \in Procs : authenticate_user_store(p)
    \/ \E header \in Headers : logout_user(header)
    \/ \E header \in Headers : get_user_profile(header)
    \/ \E t \in Tokens : SessionExpire(t)
    \/ \E u \in UserIds : suspend_user(u)
    \/ \E u \in UserIds : activate_user(u)
    \/ \E u \in UserIds : AdminDeleteUser(u)
    \/ \E u \in UserIds, strong \in BOOLEAN : reset_user_password(u, strong)

SessionSpec == Init /\ [][SessionNext]_vars

\* book deletions and CSV imports of books, interleaved with a reader who
\* reviews, favorites and reads the books and with page uploads
CatalogInit ==
    /\ users = {1}
    /\ books = [b \in InitBookIds |-> BookRow(1)]
    /\ reviews = {}
    /\ progress = {}
    /\ cache = <<>>
    /\ reqs = [p \in Procs |-> IdleReq]
    /\ response = NoResponse
    /\ favorites = {}
    /\ accounts = [u \in users |-> NewAccount]
    /\ sessions = <<>>
    /\ issued = {}
    /\ pages = {}

CatalogNext ==
    \/ \E isbn \in Isbns : import_books_csv(<<isbn>>)
    \/ \E b \in BookIds : delete_book(b)
    \/ \E u \in users, b \in BookIds : CreateReviewBegin(1, u, b, MaxRating)
    \/ ReviewStep(1)
    \/ \E u \in users, b \in BookIds : add_favorite_book(u, b)
    \/ \E u \in users, b \in BookIds : update_reading_progress(u, b, 1, MaxPage)
    \/ \E b \in BookIds : create_page(b, 1)

CatalogSpec == CatalogInit /\ [][CatalogNext]_vars

\* the admin's ISBN edits, two at a time, with CSV imports and deletions
IsbnNext ==
    \/ \E isbn \in Isbns \cup {Null} : create_book(isbn)
    \/ \E p \in Procs, b \in BookIds, isbn \in Isbns \cup {Null} : UpdateBookBegin(p, b, isbn)
    \/ \E p \in Procs : UpdateBookCommit(p)
    \/ \E rows \in BookCsvFiles : import_books_csv(rows)
    \/ \E b \in BookIds : delete_book(b)

IsbnSpec == CatalogInit /\ [][IsbnNext]_vars

\* page uploads, one page or many at a time
PageNext ==
    \/ \E b \in BookIds, n \in PageNumbers : create_page(b, n)
    \/ \E b \in BookIds, numbers \in BulkRequests : create_pages_bulk(b, numbers)
    \/ \E b \in BookIds : delete_book(b)
    \/ \E rows \in BookCsvFiles : import_books_csv(rows)

PageSpec == CatalogInit /\ [][PageNext]_vars

\* controller operations called one at a time with valid and invalid inputs
ErrorNext ==
    \/ Quiescent /\ \E b \in BookIds, r \in {MinRating - 1, MaxRating} :
                       CreateReviewBegin(1, 1, b, r)
    \/ Quiescent /\ \E i \in ReviewIds, u \in UserIds, r \in {MinRating, MaxRating + 1} :
                       UpdateReviewBegin(1, i, u, r)
    \/ Quiescent /\ \E i \in ReviewIds, u \in UserIds : DeleteReviewBegin(1, i, u)
    \/ ReviewStep(1)
    \/ Quiescent /\ \E b \in BookIds, c \in {0 - 1, 1} :
                       update_reading_progress(1, b, c, Null)
    \/ Quiescent /\ \E b \in BookIds, titre \in TitleInputs, isbn \in Isbns \cup {Null} :
                       update_book(b, titre, isbn)
    \/ Quiescent /\ \E isbn \in Isbns : import_books_csv(<<isbn>>)
    \/ Quiescent /\ \E b \in BookIds : delete_book(b)

ErrorSpec == CatalogInit /\ [][ErrorNext]_vars

\* reviews of one book with their timestamps: created in id order, each
\* edited once afterwards in some order
SortInit ==
    \E rating \in [1..MaxSortRows -> {MinRating, MaxRating}],
       updated_at \in [1..MaxSortRows -> (MaxSortRows + 1)..(2 * MaxSortRows)] :
        /\ users = 1..MaxSortRows
        /\ books = [b \in {ListBook} |-> NewBook(Null, Null)]
        /\ reviews = {[id |-> i, user_id |-> i, book_id |-> ListBook,
                       rating |-> rating[i], created_at |-> i,
                       updated_at |-> updated_at[i]] : i \in 1..MaxSortRows}
        /\ favorites = {}
        /\ accounts = [u \in users |-> NewAccount]
        /\ sessions = <<>>
        /\ issued = {}
        /\ pages = {}
        /\ progress = {}
        /\ cache = <<>>
        /\ reqs = [p \in Procs |-> IdleReq]
        /\ response = NoResponse

SortNext ==
    \E sort_by \in SortFields, sort_order \in SortOrders :
        get_book_reviews_sorted(ListBook, sort_by, sort_order)

SortSpec == SortInit /\ [][SortNext]_vars

\* the users table after the migration that adds the is_admin column: every
\* row carries the flag, and at least one active account has it set
AdminFlags == {f \in [UserIds -> BOOLEAN] : \E u \in UserIds : f[u]}

RoleInit ==
    \E flags \in AdminFlags :
        /\ users = UserIds
        /\ books = [b \in InitBookIds |-> NewBook(Null, Null)]
        /\ reviews = {}
        /\ progress = {}
        /\ cache = <<>>
        /\ reqs = [p \in Procs |-> IdleReq]
        /\ response = NoResponse
        /\ favorites = {}
        /\ accounts = [u \in users |-> [is_admin |-> flags[u]] @@ NewAccount]
        /\ sessions = <<>>
        /\ issued = {}
        /\ pages = {}

\* logins and logouts of the accounts, and the requests by which an admin
\* would suspend, delete or demote an account
RoleNext ==
    \/ \E u \in UserIds, ok \in BOOLEAN : authenticate_user(u, ok)
    \/ \E header \in Headers : logout_user(header)
    \/ \E header \in Headers, u \in UserIds : route_suspend_user(header, u)
    \/ \E header \in Headers, u \in UserIds : route_delete_user(header, u)
    \/ \E header \in Headers, u \in UserIds : route_revoke_admin(header, u)

RoleSpec == RoleInit /\ [][RoleNext]_vars

\* ------------------------------------------------------------------
\* Properties
\* ------------------------------------------------------------------
\* the stored aggregate of book_id is the count of its review rows and their
\* mean at the precision of the column (the nearest hundredth), 0 without rows
AggregateMatches(book_id) ==
    LET rs == {r \in reviews : r.book_id = book_id}
        n == Cardinality(rs)
        total == SumRatings(rs)
        avg == books[book_id].average_rating
        diff == 100 * total - avg * n
    IN  /\ books[book_id].review_count = n
        /\ n = 0 => avg = 0
        /\ n > 0 => (2 * diff <= n /\ 0 - 2 * diff <= n)

HasReview(user_id, book_id) ==
    \E r \in reviews : r.user_id = user_id /\ r.book_id = book_id

\* C1: whenever no request is in flight, every book's review_count is the
\* number of review rows referencing it and its average_rating is their mean
\* (0 when it has none), whichever operations wrote the reviews.
C1_AggregateInvariant ==
    Quiescent => \A b \in DOMAIN books : AggregateMatches(b)

\* C2: when create_review, update_review or delete_review, run alone, returns
\* success for a book, the book's stored average_rating and review_count are
\* the mean and the count of the reviews then stored for it.
C2_StatsAfterSuccess ==
    [][\A p \in Procs : \A b \in DOMAIN books :
          (Finish(p) /\ reqs[p].book_id = b /\ response'.result = "ok")
              => AggregateMatches(b)']_vars

\* the first review of a book, rated 5, was created: average 5.0, count 1
C2_Witness ==
    /\ response.op = "create_review" /\ response.result = "ok"
    /\ \E b \in DOMAIN books :
          /\ Cardinality(ReviewsOfBook(reviews, b)) = 1
          /\ books[b].average_rating = 500 /\ books[b].review_count = 1

\* C3: a review insert, update or delete and the recomputed aggregate of its
\* book are committed together: no step changes the review rows of a book
\* and leaves the book with an aggregate that does not match them.
C3_AtomicWithAggregate ==
    [][\A b \in DOMAIN books :
          ReviewsOfBook(reviews', b) # ReviewsOfBook(reviews, b) => AggregateMatches(b)']_vars

\* C4: a book read (get_book_details, get_books_paginated) returns the
\* average_rating and review_count stored in the database for each book it
\* lists, also after reviews of the book were created, updated or deleted.
C4_ReadsAreFresh ==
    (response.op \in {"get_book_details", "get_books_paginated"} /\ response.result = "ok")
        => \A d \in response.data : d.id \in DOMAIN books /\ d = BookDict(d.id)

\* C5: create_review(u, b, ...) with valid review data for a pair (u, b) that
\* already has a review returns the duplicate-review error, and whatever the
\* data it adds no review row and leaves the books unchanged.
C5_DuplicateRejected ==
    [][\A p \in Procs, u \in UserIds, b \in BookIds, r \in RatingInputs :
          (HasReview(u, b) /\ CreateReviewBegin(p, u, b, r))
              => /\ response'.op = "create_review"
                 /\ response'.result = IF r \in MinRating..MaxRating THEN "duplicate"
                                        ELSE "invalid"
                 /\ reviews' = reviews
                 /\ books' = books]_vars

\* a second create_review for a reviewed pair was answered with the error
C5_Witness ==
    /\ response.op = "create_review" /\ response.result = "duplicate"
    /\ reviews # {}

\* C6: there is at most one review row per (user, book) pair.
C6_OneReviewPerPair ==
    \A r1 \in reviews, r2 \in reviews :
        (r1.user_id = r2.user_id /\ r1.book_id = r2.book_id) => r1 = r2

\* C7: every stored review has a rating in 1..5.
C7_RatingsInRange ==
    \A r \in reviews : r.rating >= 1 /\ r.rating <= 5

\* C8: every reading-progress row has 0 <= progress_percentage <= 100.
C8_PercentageInRange ==
    \A g \in progress :
        /\ g.progress_percentage.den > 0
        /\ g.progress_percentage.num >= 0
        /\ g.progress_percentage.num <= 100 * g.progress_percentage.den

\* a row whose current page is past its total: the percentage was clamped
C8_Witness ==
    \E g \in progress :
        /\ Truthy(g.total_pages) /\ g.current_page > g.total_pages
        /\ g.progress_percentage = [num |-> 100, den |-> 1]

\* C9: for every reading-progress row whose total_pages is known,
\* progress_percentage is 100 if and only if current_page equals total_pages.
C9_FullIffLastPage ==
    \A g \in progress :
        Truthy(g.total_pages) =>
            ((g.progress_percentage.num = 100 * g.progress_percentage.den)
                <=> (g.current_page = g.total_pages))

BookStoredTotal(book_id) == PyOr(books[book_id].total_pages, books[book_id].nombre_pages)

\* C11: update_reading_progress called without total_pages, creating the row
\* or updating it, stores the book's stored total pages as the row's total
\* (none when the book has none) and the percentage computed from it.
C11_OmittedTotalIsBookTotal ==
    [][\A u \in UserIds, b \in DOMAIN books, c \in CurrentPageInputs :
          (update_reading_progress(u, b, c, Null) /\ response'.result = "ok")
              => \A g \in progress' :
                    (g.user_id = u /\ g.book_id = b)
                        => /\ Truthy(BookStoredTotal(b)) => g.total_pages = BookStoredTotal(b)
                           /\ ~Truthy(BookStoredTotal(b)) => ~Truthy(g.total_pages)
                           /\ g.progress_percentage = ProgressPercentage(c, BookStoredTotal(b))]_vars

\* the listing operations and the size of the result set each pages over
ListingOps == {"get_books_page", "get_book_reviews", "get_user_reviews",
               "get_user_favorites", "get_users_paginated", "get_reviews_paginated"}

ListingCall(op, page, page_size) ==
    IF op = "get_books_page" THEN get_books_page(page, page_size)
    ELSE IF op = "get_book_reviews" THEN get_book_reviews(ListBook, page, page_size)
    ELSE IF op = "get_user_reviews" THEN get_user_reviews(ListUser, page, page_size)
    ELSE IF op = "get_user_favorites" THEN get_user_favorites(ListUser, page, page_size)
    ELSE IF op = "get_users_paginated" THEN get_users_paginated(page, page_size)
    ELSE get_reviews_paginated(page, page_size)

ResultSetSize(op) ==
    IF op = "get_books_page" THEN Cardinality(DOMAIN books)
    ELSE IF op = "get_book_reviews" THEN Cardinality({r \in reviews : r.book_id = ListBook})
    ELSE IF op = "get_user_reviews" THEN Cardinality({r \in reviews : r.user_id = ListUser})
    ELSE IF op = "get_user_favorites" THEN Cardinality({f \in favorites : f[1] = ListUser})
    ELSE IF op = "get_users_paginated" THEN Cardinality(users)
    ELSE Cardinality(reviews)

InRange(page, page_size) == page >= 1 /\ page_size >= 1 /\ page_size <= MaxPageSize

Min(a, b) == IF a < b THEN a ELSE b
Max(a, b) == IF a > b THEN a ELSE b

\* C12: for every paginated listing, a request for page p with size s in
\* range over a result set of N items returns exactly
\* min(s, max(0, N - (p-1)*s)) items.
C12_PageHoldsExactCount ==
    [][\A op \in ListingOps, p \in PageInputs, s \in PageSizeInputs :
          (InRange(p, s) /\ ListingCall(op, p, s))
              => /\ response'.result = "ok"
                 /\ \A d \in response'.data :
                       Len(d.items) = Min(s, Max(0, ResultSetSize(op) - (p - 1) * s))]_vars

\* C13: in every paginated response has_next is true exactly when p*s is
\* below total_count, and has_previous exactly when at least one item lies
\* before page p, also beyond the last page and on empty result sets.
C13_NextPreviousMatchItems ==
    (response.op \in ListingOps /\ response.result = "ok") =>
        \A d \in response.data :
            /\ d.has_next <=> (d.current_page * d.page_size < d.total_count)
            /\ d.has_previous <=>
                  (Min(d.total_count, (d.current_page - 1) * d.page_size) >= 1)

\* C14: a listing request whose page is below 1 or whose page_size is outside
\* [1, MaxPageSize] is served, with page raised to 1 and page_size brought
\* into [1, MaxPageSize].
C14_OutOfRangeIsClamped ==
    [][\A op \in ListingOps \ {"get_user_favorites"}, p \in PageInputs, s \in PageSizeInputs :
          (~InRange(p, s) /\ ListingCall(op, p, s))
              => /\ response'.result = "ok"
                 /\ \A d \in response'.data :
                       /\ d.current_page = Max(1, p)
                       /\ d.page_size = Min(Max(1, s), MaxPageSize)]_vars

\* the state written by the endpoints that require authentication
UserData == <<users, books, reviews, progress, cache, reqs, favorites, accounts, pages>>

\* C16: an endpoint that requires authentication answers 401 to a request
\* with no Authorization header, a header without the Bearer prefix, or a
\* token with no stored session, and changes no state.
C16_UnauthenticatedRejected ==
    [][\A header \in Headers :
          (/\ \/ ~header.present
              \/ ~header.bearer
              \/ header.token \notin DOMAIN sessions
           /\ UserRequest(header))
              => /\ response'.result = "401"
                 /\ UNCHANGED UserData
                 /\ UNCHANGED <<sessions, issued>>]_vars

\* a request bearing a token without a session was answered 401 while another
\* session is stored
C16_Witness ==
    /\ response.result = "401"
    /\ response.op \in {"create_review", "update_reading_progress", "add_favorite_book"}
    /\ DOMAIN sessions # {}

\* the caller of the request is authenticated as an active admin user
ActiveAdmin(header) == is_admin(mw_get_current_user(header))

\* C15: an /admin endpoint, CSV import and export included, called by anyone
\* but an active admin answers 401 or 403, returns no data and changes nothing
C15_AdminOnly ==
    [][\A header \in Headers :
          (~ActiveAdmin(header) /\ AdminEndpoint(header))
              => /\ response'.result \in {"401", "403"}
                 /\ response'.data = {}
                 /\ UNCHANGED UserData
                 /\ UNCHANGED sessions]_vars

\* the step completes the call op with result "ok" and the row d in its data
Returned(op, d) ==
    /\ response'.op = op
    /\ response'.result = "ok"
    /\ d \in response'.data

\* the sessions stored for the user
TokensOf(user_id) == {t \in DOMAIN sessions : sessions[t] = user_id}

C18_ChildrenReferenceBooks ==
    /\ \A r \in reviews : r.book_id \in DOMAIN books
    /\ \A g \in pages : g.book_id \in DOMAIN books
    /\ \A g \in progress : g.book_id \in DOMAIN books
    /\ \A f \in favorites : f[2] \in DOMAIN books

\* a book was deleted while a review of it was about to be inserted, and
\* rows of another book are stored
C18_Witness ==
    /\ response.op = "delete_book"
    /\ response.result = "ok"
    /\ \E p \in Procs : reqs[p].pc = "insert" /\ reqs[p].book_id \notin DOMAIN books
    /\ progress # {}

\* no two books hold the same ISBN
IsbnUnique == \A a, b \in DOMAIN books : a # b => books[a].isbn # books[b].isbn

\* C19: no two books ever share an ISBN; create_book and update_book answer
\* ISBN_EXISTS to an ISBN held by another book; a CSV import of books succeeds,
\* leaves the stored books alone and stores every ISBN of the file that no
\* book held, once, also when the file repeats an ISBN
C19_IsbnUnique ==
    [][/\ IsbnUnique'
       /\ \A isbn \in Isbns :
            (create_book(isbn) /\ isbn_exists(isbn))
                => response'.result = "ISBN_EXISTS" /\ UNCHANGED books
       /\ \A p \in Procs, b \in DOMAIN books, isbn \in Isbns :
            (UpdateBookBegin(p, b, isbn) /\ IsbnHeldByOther(b, isbn))
                => response'.result = "ISBN_EXISTS" /\ UNCHANGED books
       /\ \A rows \in BookCsvFiles :
            import_books_csv(rows)
                => /\ response'.result = "ok"
                   /\ \A b \in DOMAIN books : b \in DOMAIN books' /\ books'[b] = books[b]
                   /\ \A i \in 1..Len(rows) :
                        \E b \in DOMAIN books' : books'[b].isbn = rows[i]]_vars

\* C20: no two stored pages of a book share a page_number, whatever
\* create_page and create_pages_bulk were asked to store
C20_PageNumbersUnique ==
    \A g, h \in pages :
        (g.book_id = h.book_id /\ g.page_number = h.page_number) => g.id = h.id

\* the results by which a controller operation reports an error
ErrorResults == {"invalid", "duplicate", "not_found", "none", "BOOK_NOT_FOUND",
                 "INVALID_TITLE", "ISBN_EXISTS"}

\* the rows of every table
Rows == <<users, accounts, books, reviews, progress, favorites, pages>>

\* C21: a call that returns an error result leaves every row as it was,
\* update_book failing with ISBN_EXISTS after the title was assigned included
C21_ErrorLeavesRows ==
    [][(response'.op # "none" /\ response'.result \in ErrorResults)
          => UNCHANGED Rows]_vars

\* update_book was refused with ISBN_EXISTS while two books are stored
C21_Witness ==
    /\ response.op = "update_book"
    /\ response.result = "ISBN_EXISTS"
    /\ Cardinality(DOMAIN books) = 2

\* C22: a create_review call rejected because the user has already reviewed
\* the book carries a code of its own, so that the route answers 409 for it
\* and 400 for a validation failure.
C22_DuplicateAnswers409 ==
    /\ (response.op = "create_review" /\ response.result = "duplicate")
           => create_review_status(response) = HTTP_409_CONFLICT
    /\ (response.op = "create_review" /\ response.result = "invalid")
           => create_review_status(response) = HTTP_400_BAD_REQUEST

\* C23: a create_review call for a book id that does not exist is rejected
\* as not found (404) and stores no review row.
C23_MissingBookNotFound ==
    [][\A p \in Procs :
           (/\ reqs[p].pc = "insert"
            /\ reqs[p].book_id \notin DOMAIN books
            /\ CreateReviewInsert(p))
               => (/\ response'.op = "create_review"
                   /\ response'.result = "not_found"
                   /\ reviews' = reviews)]_vars

\* C24: a sort_by value outside the allow-list is rejected, and a listing of
\* a book's reviews asked for with an accepted sort_by (created_at, rating,
\* updated_at) comes back ordered by that column.
C24_OrderedByRequestedColumn ==
    response.op = "get_book_reviews" =>
        IF response.sort_by \in {"created_at", "rating", "updated_at"}
           /\ response.sort_order \in {"asc", "desc"}
        THEN /\ response.result = "ok"
             /\ IsOrderedBy(response.data, response.sort_by, response.sort_order)
        ELSE response.result = "invalid"

\* C25: when review creations, updates and deletions for the same book were
\* served concurrently and all of them have completed, the book's stored
\* average_rating and review_count are the mean and the count of the reviews
\* stored for it.
C25_ConcurrentAggregate ==
    (\A p \in Procs : reqs[p].pc = "idle")
        => \A b \in DOMAIN books :
               ReviewsOfBook(reviews, b) # {} => AggregateMatches(b)

\* C26: an admin delete_review or bulk_delete_reviews call on existing
\* reviews returns success, removes them, and leaves every affected book with
\* the count and mean of its remaining reviews (0 and 0.0 when none remain).
C26_AdminDeleteRecomputes ==
    [][(/\ response'.op \in {"admin_delete_review", "admin_bulk_delete_reviews"}
        /\ reviews' # reviews)
           => (/\ response'.result = "ok"
               /\ \A b \in DOMAIN books :
                      ReviewsOfBook(reviews', b) # ReviewsOfBook(reviews, b)
                          => AggregateMatches(b)')]_vars

\* C27: after a CSV review import, every book that received imported reviews
\* has a review_count and an average_rating equal to the count and the mean
\* of the reviews stored for it.
C27_ImportRecomputes ==
    [][response'.op = "import_reviews_csv"
           => \A b \in DOMAIN books :
                  ReviewsOfBook(reviews', b) # ReviewsOfBook(reviews, b)
                      => AggregateMatches(b)']_vars

\* C28: update_review and delete_review act only for the owner of the
\* review: a call by another user on an existing review returns not found and
\* leaves the review rows, the books' rating statistics and the cache as they
\* were, and starts no recomputation.
C28_OnlyOwnerChanges ==
    [][\A i \in ReviewIds, u \in UserIds, r \in (MinRating..MaxRating) \cup {Null} :
           (/\ \E x \in reviews : x.id = i /\ x.user_id # u
            /\ UpdateReviewBegin(1, i, u, r) \/ DeleteReviewBegin(1, i, u))
               => (/\ response'.op \in {"update_review", "delete_review"}
                   /\ response'.result = "not_found"
                   /\ UNCHANGED <<reviews, books, cache, reqs>>)]_vars

\* every review id is stored, so the delete call that was answered not found
\* named a review of another user; book data is cached
C28_Witness ==
    /\ response.op = "delete_review"
    /\ response.result = "not_found"
    /\ {x.id : x \in reviews} = ReviewIds
    /\ DOMAIN cache # {}

\* C29: after any sequence of page creations, a book that has stored pages
\* has a total_pages equal to their number.
C29_TotalPagesIsPageCount ==
    \A b \in DOMAIN books :
        LET stored == {pg \in pages : pg.book_id = b}
        IN  stored # {} => books[b].total_pages = Cardinality(stored)

====
